---- MODULE Spec2Model ----
(***************************************************************************)
(* The aws_cognito_managed_login_terms resource of the Terraform AWS       *)
(* provider (internal/service/cognitoidp/managed_login_terms.go): its      *)
(* schema validators, its config validator, and the Create, Read, Update,  *)
(* Delete and ImportState handlers run against a Cognito control plane     *)
(* that stores the terms objects.                                          *)
(*                                                                         *)
(* Representation.  A Go string is a sequence of one-character strings,    *)
(* so that lengths are counted and import IDs are split.  Map keys, enum   *)
(* values and error codes are TLA+ strings.  A framework value that is     *)
(* null or unknown is a marker of the same shape as a known value.  A      *)
(* time.Time is a number of milliseconds; an RFC3339 attribute is a        *)
(* one-element sequence holding whole seconds, the null one is empty.      *)
(***************************************************************************)
EXTENDS Integers, Sequences, FiniteSets, TLC

VARIABLES
    remote,     \* the control plane: TermsId -> awstypes.TermsType
    nextId,     \* how many TermsIds the control plane has generated
    clock,      \* the control plane's clock, in ticks of 500 ms
    config,     \* the resource block as last written and validated
    state,      \* Terraform state of the resource: [present, data]
    phase,      \* "idle", or "imported" between ImportState and its Read
    diags,      \* the diagnostics of the last handler
    lastOp,     \* the handler that ran last
    lastPhase,  \* the phase the last handler started in
    lastReq,    \* the API request the last handler sent
    lastResp,   \* the API response the last handler received
    created,    \* TermsId -> the state Create wrote, for the objects
                \* that nothing has changed since
    destroyed,  \* the (user_pool_id, managed_login_terms_id) pairs destroyed
    expandNull  \* what fwflex.Expand does with a null element of links:
                \* "error" or "empty"; the same in every call

vars == <<remote, nextId, clock, config, state, phase, diags, lastOp, lastPhase, lastReq,
          lastResp, created, destroyed, expandNull>>

----------------------------------------------------------------------------
(* Bounds of the model. *)

\* TermsIds the control plane can generate.
MaxTerms == 2

\* Ticks of the control plane's clock: one per CreateTerms or UpdateTerms.
MaxClock == 2

----------------------------------------------------------------------------
(* Framework values. *)

NullStr == <<"<null>">>
UnknownStr == <<"<unknown>">>
NullEnum == "<null>"
UnknownEnum == "<unknown>"
NullMap == ("<null>" :> <<>>)
UnknownMap == ("<unknown>" :> <<>>)
NullDate == <<>>
UnknownDate == <<0, 0>>    \* no one-element sequence: not a known date

StrIsNull(v) == v = NullStr
StrIsUnknown(v) == v = UnknownStr
MapIsNull(m) == m = NullMap
MapIsUnknown(m) == m = UnknownMap

Repeat(c, n) == [i \in 1..n |-> c]

----------------------------------------------------------------------------
(* Schema: the validators of lines 49-144. *)

ClientIDMaxLen == 128
LinksMinSize == 1
LinksMaxSize == 12
LinkValueMinLen == 1
LinkValueMaxLen == 1024
UserPoolIDMinLen == 1
UserPoolIDMaxLen == 55

\* A string is the sequence of its code points. A code point of ASCII is
\* written as the character; one outside ASCII is written by its name, and
\* the classes outside ASCII are given by the code points named here.
AsciiLetters ==
    {"a", "b", "c", "d", "e", "f", "g", "h", "i", "j", "k", "l", "m", "n",
     "o", "p", "q", "r", "s", "t", "u", "v", "w", "x", "y", "z", "A", "B",
     "C", "D", "E", "F", "G", "H", "I", "J", "K", "L", "M", "N", "O", "P",
     "Q", "R", "S", "T", "U", "V", "W", "X", "Y", "Z"}

\* [0-9]
Digits == {"0", "1", "2", "3", "4", "5", "6", "7", "8", "9"}

\* \p{L}: every ASCII letter; U+00E9 (e acute) and U+4E2D (a CJK ideograph).
Letters == AsciiLetters \cup {"U+00E9", "U+4E2D"}

\* \p{M}: no ASCII character; U+0301 (combining acute accent).
Marks == {"U+0301"}

\* \p{N}: the ASCII digits; U+00B2 (superscript two) and U+0663
\* (Arabic-Indic digit three).
Numbers == Digits \cup {"U+00B2", "U+0663"}

\* \p{P}: the ASCII punctuation; U+00BF (inverted question mark) and
\* U+2014 (em dash).
Punctuation ==
    {"!", "\"", "#", "%", "&", "'", "(", ")", "*", ",", "-", ".", "/", ":",
     ";", "?", "@", "[", "\\", "]", "_", "{", "}"}
    \cup {"U+00BF", "U+2014"}

\* \p{S}: the ASCII symbols, the grave accent by its name U+0060 (a string
\* of the module cannot hold it); U+20AC (euro sign).
Symbols == {"$", "+", "<", "=", ">", "^", "|", "~"} \cup {"U+0060", "U+20AC"}

\* \p{Z}, in none of the classes above: the space and U+00A0 (no-break space).
Separators == {" ", "U+00A0"}

\* The code points that UTF-8 encodes in two bytes and in three bytes.
TwoByte == {"U+00E9", "U+0301", "U+00B2", "U+0663", "U+00BF", "U+00A0"}
ThreeByte == {"U+4E2D", "U+2014", "U+20AC"}

\* len(value): the number of bytes of the UTF-8 encoding.
ByteLen(v) ==
    Len(v) + Cardinality({i \in 1..Len(v) : v[i] \in TwoByte})
           + 2 * Cardinality({i \in 1..Len(v) : v[i] \in ThreeByte})

\* The alternatives of the links key pattern.
AllowedKeys ==
    {"cognito:default", "cognito:english", "cognito:french",
     "cognito:spanish", "cognito:german", "cognito:bahasa-indonesia",
     "cognito:italian", "cognito:japanese", "cognito:korean",
     "cognito:portuguese-brazil", "cognito:chinese-simplified",
     "cognito:chinese-traditional"}

\* ^cognito:(default|english|...|chinese-(simplified|traditional))$
LinksKeyRegexMatches(k) == k \in AllowedKeys

\* [\p{L}\p{M}\p{S}\p{N}\p{P}]
LinksValueChars == Letters \cup Marks \cup Symbols \cup Numbers \cup Punctuation

\* ^[\p{L}\p{M}\p{S}\p{N}\p{P}]+$
LinksValueRegexMatches(v) ==
    /\ Len(v) >= 1
    /\ \A i \in 1..Len(v) : v[i] \in LinksValueChars

\* The length check as it would be with its upper bound off by one.
LinksValueLengthBetweenOffByOne(v) ==
    ByteLen(v) >= LinkValueMinLen /\ ByteLen(v) <= LinkValueMaxLen + 1

\* stringvalidator.LengthBetween(1, 1024), in bytes
LinksValueLengthBetween(v) ==
    ByteLen(v) >= LinkValueMinLen /\ ByteLen(v) <= LinkValueMaxLen

Diag(sev, summary, attr) == [severity |-> sev, summary |-> summary, attr |-> attr]

Warning(summary) == Diag("warning", summary, "")
Error(summary) == Diag("error", summary, "")

HasError(ds) == \E d \in ds : d.severity = "error"

\* The validators of the links attribute; a validator skips a null or
\* unknown value, and Required rejects a null one.
LinksValidators(links) ==
    IF MapIsNull(links) THEN {Diag("error", "Missing required argument", "links")}
    ELSE IF MapIsUnknown(links) THEN {}
    ELSE
      (IF Cardinality(DOMAIN links) < LinksMinSize
         THEN {Diag("error", "Invalid Attribute Value: size at least", "links")}
         ELSE {})
      \cup
      (IF Cardinality(DOMAIN links) > LinksMaxSize
         THEN {Diag("error", "Invalid Attribute Value: size at most", "links")}
         ELSE {})
      \cup
      (IF \E k \in DOMAIN links : ~LinksKeyRegexMatches(k)
         THEN {Diag("error", "invalid links key; see allowed Cognito language keys", "links")}
         ELSE {})
      \cup
      (IF \E k \in DOMAIN links :
              ~StrIsUnknown(links[k]) /\ ~StrIsNull(links[k])
              /\ ~LinksValueLengthBetween(links[k])
         THEN {Diag("error", "Invalid Attribute Value Length", "links")}
         ELSE {})
      \cup
      (IF \E k \in DOMAIN links :
              ~StrIsUnknown(links[k]) /\ ~StrIsNull(links[k])
              /\ ~LinksValueRegexMatches(links[k])
         THEN {Diag("error", "invalid links value characters", "links")}
         ELSE {})

\* \w is [0-9A-Za-z_]: ASCII only.
WordChars == AsciiLetters \cup Digits \cup {"_"}
\* [0-9a-zA-Z]
AlnumChars == AsciiLetters \cup Digits

\* [\w+]
ClientIDChars == WordChars \cup {"+"}
\* [\w-]
UserPoolIDChars == WordChars \cup {"-"}

\* ^[\w+]+$
ClientIDRegexMatches(v) ==
    /\ Len(v) >= 1
    /\ \A i \in 1..Len(v) : v[i] \in ClientIDChars

\* [\w-]+_[0-9a-zA-Z]+ : the pattern has no anchors, so it matches when some
\* substring of the value has that form.
UserPoolIDRegexMatches(v) ==
    \E a \in 1..Len(v) : \E b \in a..Len(v) : \E d \in (b + 2)..Len(v) :
        /\ \A i \in a..b : v[i] \in UserPoolIDChars
        /\ v[b + 1] = "_"
        /\ \A i \in (b + 2)..d : v[i] \in AlnumChars

StringValidators(v, attr, ok) ==
    IF StrIsNull(v) THEN {Diag("error", "Missing required argument", attr)}
    ELSE IF StrIsUnknown(v) \/ ok THEN {}
    ELSE {Diag("error", "Invalid Attribute Value", attr)}

EnumValidators(v, attr, allowed) ==
    IF v = NullEnum THEN {Diag("error", "Missing required argument", attr)}
    ELSE IF v = UnknownEnum \/ v \in allowed THEN {}
    ELSE {Diag("error", "Invalid Attribute Value Match", attr)}

\* Every attribute validator of the schema, on a configuration.
Schema(cfg) ==
    StringValidators(cfg.client_id, "client_id",
        ByteLen(cfg.client_id) >= 1 /\ ByteLen(cfg.client_id) <= ClientIDMaxLen
        /\ ClientIDRegexMatches(cfg.client_id))
    \cup EnumValidators(cfg.enforcement, "enforcement", {"NONE"})
    \cup LinksValidators(cfg.links)
    \cup EnumValidators(cfg.terms_name, "terms_name", {"terms-of-use", "privacy-policy"})
    \cup EnumValidators(cfg.terms_source, "terms_source", {"LINK"})
    \cup StringValidators(cfg.user_pool_id, "user_pool_id",
        ByteLen(cfg.user_pool_id) >= UserPoolIDMinLen
        /\ ByteLen(cfg.user_pool_id) <= UserPoolIDMaxLen
        /\ UserPoolIDRegexMatches(cfg.user_pool_id))

----------------------------------------------------------------------------
(* The config validator, lines 357-392. *)

\* config.Links.ElementsAs(ctx, &links, true): a Go map[string]string; with
\* allowUnhandled an element that is null or unknown becomes the empty string.
ElementsAs(links) ==
    [k \in DOMAIN links |->
        IF StrIsNull(links[k]) \/ StrIsUnknown(links[k]) THEN <<>> ELSE links[k]]

\* validatordiag.InvalidAttributeValueDiagnostic(path.Root("links"), ...,
\* "missing cognito:default")
MissingDefault ==
    Diag("error", "Invalid Attribute Value: missing cognito:default", "links")

\* The validator as it would be if it looked the entry up by its value.
ValidateResourceByValue(cfg) ==
    IF MapIsUnknown(cfg.links) \/ MapIsNull(cfg.links) THEN {}
    ELSE LET links == ElementsAs(cfg.links)
         IN  IF "cognito:default" \notin DOMAIN links
                \/ links["cognito:default"] = <<>>
               THEN {MissingDefault}
               ELSE {}

\* The validator as it would be if it reported nothing.
ValidateResourceSilent(cfg) == {}

ValidateResource(cfg) ==
    IF MapIsUnknown(cfg.links) \/ MapIsNull(cfg.links) THEN {}
    ELSE LET links == ElementsAs(cfg.links)
         IN  IF "cognito:default" \notin DOMAIN links
               THEN {MissingDefault}
               ELSE {}

\* ConfigValidators: the one validator above.
ConfigValidators(cfg) == ValidateResource(cfg)

\* What the framework reports for a configuration: the attribute validators
\* and the config validators.
ValidateConfigDiags(cfg) == Schema(cfg) \cup ConfigValidators(cfg)

----------------------------------------------------------------------------
(* managedLoginTermsResourceModel, lines 344-355, and the configurations,  *)
(* plans and import IDs the handlers are given.                            *)

NullModel ==
    [client_id |-> NullStr, enforcement |-> NullEnum, links |-> NullMap,
     managed_login_terms_id |-> NullStr, creation_date |-> NullDate,
     last_modified_date |-> NullDate, terms_name |-> NullEnum,
     terms_source |-> NullEnum, user_pool_id |-> NullStr]

NoState == [present |-> FALSE, data |-> NullModel]

Client1 == <<"c", "1">>
Client2 == <<"c", "2">>
\* A pool that exists, one that does not, and two URLs: short values that
\* pass the validators.
Pool1 == <<"p", "_", "1">>
Pool2 == <<"q", "_", "2">>
Url1 == <<"u">>
Url2 == <<"v", "/", "1">>

\* The pool ID and the URLs of the documentation.
DocPool ==
    <<"u", "s", "-", "w", "e", "s", "t", "-", "2", "_", "r", "S", "s", "s",
      "9", "Z", "l", "t", "r">>
DocUrl ==
    <<"h", "t", "t", "p", "s", ":", "/", "/", "e", "x", "a", "m", "p", "l",
      "e", ".", "c", "o", "m", "/", "t", "e", "r", "m", "s">>
DocUrlSpanish ==
    <<"h", "t", "t", "p", "s", ":", "/", "/", "e", "x", "a", "m", "p", "l",
      "e", ".", "c", "o", "m", "/", "t", "e", "r", "m", "s", "/", "e", "s">>

\* The user pools that exist in the account.
UserPools == {Pool1}

LinksDefault == ("cognito:default" :> Url1)
LinksTwo == ("cognito:default" :> Url2) @@ ("cognito:english" :> Url1)

\* Maps that pass every validator.
GoodLinks ==
    {LinksDefault, LinksTwo,
     ("cognito:default" :> DocUrl) @@ ("cognito:spanish" :> DocUrlSpanish),
     [k \in AllowedKeys |-> Url1],
     ("cognito:default" :> Repeat("a", LinkValueMaxLen)),
     ("cognito:default" :> Repeat("U+00E9", LinkValueMaxLen \div 2)),
     ("cognito:default" :> <<"U+00E9", "U+4E2D", "U+0301", "U+00B2", "U+0663",
                             "U+00BF", "U+2014", "U+20AC", "=", "$", "~", "?",
                             "%", "#", "&", "@", "!", "A", "h">>)}

\* Maps that some validator rejects, or that are not wholly known.
OtherLinks ==
    {NullMap, UnknownMap, <<>>,
     ("cognito:english" :> Url1),
     ("cognito:default" :> UnknownStr),
     ("cognito:english" :> UnknownStr),
     ("cognito:default" :> NullStr),
     ("cognito:english" :> NullStr),
     [k \in AllowedKeys |-> IF k = "cognito:english" THEN NullStr ELSE Url1],
     ("cognito:default" :> NullStr)
        @@ ("cognito:english" :> Repeat("a", LinkValueMaxLen + 1)),
     ("cognito:default" :> Url1) @@ ("cognito:klingon" :> Url1),
     ("default" :> Url1),
     [k \in AllowedKeys \cup {"cognito:klingon"} |-> Url1],
     ("cognito:default" :> <<>>),
     ("cognito:default" :> Repeat("a", LinkValueMaxLen + 1)),
     ("cognito:default" :> Repeat("U+00E9", LinkValueMaxLen \div 2 + 1)),
     ("cognito:default" :> <<"u", " ", "v">>),
     ("cognito:default" :> <<"u", "U+00A0">>)}

BaseConfig ==
    [client_id |-> Client1, enforcement |-> "NONE", links |-> LinksDefault,
     terms_name |-> "terms-of-use", terms_source |-> "LINK",
     user_pool_id |-> Pool1]

\* The configurations the resource block goes through in its life.
Configs ==
    {BaseConfig,
     [BaseConfig EXCEPT !.links = LinksTwo, !.terms_name = "privacy-policy"]}
    \cup {[BaseConfig EXCEPT !.links = l] :
            l \in {("cognito:english" :> Url1), UnknownMap}}
    \cup {[BaseConfig EXCEPT !.user_pool_id = Pool2],
          [BaseConfig EXCEPT !.client_id = Client2],
          [BaseConfig EXCEPT !.links = ("cognito:default" :> NullStr)]}

\* Values of user_pool_id at and beyond the limits of its validators.
OtherPoolIDs ==
    {<<>>, NullStr, <<"_", "1">>, <<"p", "_">>, <<"p", "-", "_", "1">>,
     <<"a", ",", "p", "_", "1">>, <<"p", "_", "1", " ">>,
     <<" ", " ", " ">>,
     DocPool, <<"U+00E9", "_", "1">>, <<"p", "_", "U+00E9">>, <<"p", "_", "-">>,
     <<"U+00E9", "p", "_", "1">>,
     Repeat("a", UserPoolIDMaxLen - 2) \o <<"_", "1">>,
     Repeat("a", UserPoolIDMaxLen - 1) \o <<"_", "1">>}

\* The configurations the validators are tried on.
ValidatorConfigs ==
    {[BaseConfig EXCEPT !.links = l, !.terms_name = n, !.user_pool_id = p] :
        l \in GoodLinks \cup OtherLinks,
        n \in {"terms-of-use", "privacy-policy", "terms"},
        p \in {Pool1, <<"p", "1">>, UnknownStr}}
    \cup {[BaseConfig EXCEPT !.user_pool_id = p] : p \in OtherPoolIDs}

\* A configuration with no unknown value in it: what an apply sees. A null
\* value is a known one.
WhollyKnown(cfg) ==
    /\ ~StrIsUnknown(cfg.client_id)
    /\ ~StrIsUnknown(cfg.user_pool_id)
    /\ cfg.enforcement # UnknownEnum
    /\ cfg.terms_name # UnknownEnum
    /\ cfg.terms_source # UnknownEnum
    /\ ~MapIsUnknown(cfg.links)
    /\ \A k \in DOMAIN cfg.links : ~StrIsUnknown(cfg.links[k])

\* The plan of a create: the configuration, the computed attributes unknown.
CreatePlan(cfg) ==
    [client_id |-> cfg.client_id, enforcement |-> cfg.enforcement,
     links |-> cfg.links, managed_login_terms_id |-> UnknownStr,
     creation_date |-> UnknownDate, last_modified_date |-> UnknownDate,
     terms_name |-> cfg.terms_name, terms_source |-> cfg.terms_source,
     user_pool_id |-> cfg.user_pool_id]

\* The plan of an update: managed_login_terms_id has UseStateForUnknown
\* (line 102), the dates have no plan modifier.
UpdatePlan(cfg, st) ==
    [CreatePlan(cfg) EXCEPT !.managed_login_terms_id =
        IF StrIsNull(st.managed_login_terms_id)
          THEN UnknownStr ELSE st.managed_login_terms_id]

----------------------------------------------------------------------------
(* The Cognito control plane: the four API calls of the handlers.  A call  *)
(* answers from the stored objects unless it is made to fail ("error": a   *)
(* service error other than not-found; "empty": an output with no terms    *)
(* object), and a failed call changes nothing.                             *)

NilStr == <<"<nil>">>
NoTerms == [nil |-> TRUE]
NoReq == [op |-> "none"]
Resp(err, terms) == [err |-> err, terms |-> terms]
NoResp == Resp("none", NoTerms)

Faults == {"none", "error", "empty"}

IdDigits == <<"1", "2", "3", "4", "5", "6", "7", "8", "9">>
TermsIdOf(n) == <<"t", IdDigits[n]>>

\* The control plane's time, in milliseconds, at its next change.
Now == (clock + 1) * 500

Exists(userPoolId, termsId) ==
    termsId \in DOMAIN remote /\ remote[termsId].UserPoolId = userPoolId

CreateTerms(input, fault) ==
    IF fault = "error" THEN Resp("InternalErrorException", NoTerms)
    ELSE IF input.UserPoolId \notin UserPools
      THEN Resp("ResourceNotFoundException", NoTerms)
    ELSE IF fault = "empty" THEN Resp("", NoTerms)
    ELSE Resp("", [ClientId |-> input.ClientId, CreationDate |-> Now,
                   Enforcement |-> input.Enforcement, LastModifiedDate |-> Now,
                   Links |-> input.Links, TermsId |-> TermsIdOf(nextId + 1),
                   TermsName |-> input.TermsName, TermsSource |-> input.TermsSource,
                   UserPoolId |-> input.UserPoolId])

DescribeTerms(input, fault) ==
    IF fault = "error" THEN Resp("InternalErrorException", NoTerms)
    ELSE IF ~Exists(input.UserPoolId, input.TermsId)
      THEN Resp("ResourceNotFoundException", NoTerms)
    ELSE IF fault = "empty" THEN Resp("", NoTerms)
    ELSE Resp("", remote[input.TermsId])

UpdateTerms(input, fault) ==
    IF fault = "error" THEN Resp("InternalErrorException", NoTerms)
    ELSE IF ~Exists(input.UserPoolId, input.TermsId)
      THEN Resp("ResourceNotFoundException", NoTerms)
    ELSE IF fault = "empty" THEN Resp("", NoTerms)
    ELSE Resp("", [remote[input.TermsId] EXCEPT
                     !.Enforcement = input.Enforcement,
                     !.LastModifiedDate = Now,
                     !.Links = input.Links,
                     !.TermsName = input.TermsName,
                     !.TermsSource = input.TermsSource])

DeleteTerms(input, fault) ==
    IF fault = "error" THEN Resp("InternalErrorException", NoTerms)
    ELSE IF ~Exists(input.UserPoolId, input.TermsId)
      THEN Resp("ResourceNotFoundException", NoTerms)
    ELSE Resp("", NoTerms)

\* The stored objects after a CreateTerms or UpdateTerms answered resp.
Stored(resp) ==
    IF resp.terms = NoTerms THEN remote
    ELSE [i \in DOMAIN remote \cup {resp.terms.TermsId} |->
             IF i = resp.terms.TermsId THEN resp.terms ELSE remote[i]]

\* The stored objects after a DeleteTerms of input answered resp.
Removed(input, resp) ==
    IF resp.err = ""
      THEN [i \in DOMAIN remote \ {input.TermsId} |-> remote[i]]
      ELSE remote

----------------------------------------------------------------------------
(* Conversions between the framework's values and the SDK's.               *)

\* fwflex.StringToFramework: a nil pointer is the null value.
StringToFramework(p) == IF p = NilStr THEN NullStr ELSE p

\* fwflex.StringValueFromFramework: null and unknown give the empty string.
StringValueFromFramework(v) == IF StrIsNull(v) \/ StrIsUnknown(v) THEN <<>> ELSE v

\* ManagedLoginTermsID.ValueString(): as above.
ValueString(v) == StringValueFromFramework(v)

\* timetypes.RFC3339 of a time.Time: time.RFC3339 has no fraction of a second.
RFC3339(t) == <<t \div 1000>>

\* The diagnostic of a conversion that failed.
ExpandError == Error("fwflex.Expand")

\* The two ways a conversion can treat a null element of a map of strings:
\* report an error, or yield the empty string.
ExpandNullOutcomes == {"error", "empty"}

\* The diagnostics of fwflex.Expand of a model into a request, whose Links
\* is a map[string]string. Without a null element in links it succeeds.
ExpandDiags(data) ==
    IF /\ expandNull = "error"
       /\ \E k \in DOMAIN data.links : StrIsNull(data.links[k])
      THEN {ExpandError}
      ELSE {}

\* The links of a request: a null element has become the empty string.
ExpandLinks(links) ==
    [k \in DOMAIN links |-> IF StrIsNull(links[k]) THEN <<>> ELSE links[k]]

\* fwflex.Expand into CreateTermsInput: the members matched by name.
ExpandCreateTermsInput(data) ==
    [op |-> "CreateTerms", ClientId |-> data.client_id,
     Enforcement |-> data.enforcement, Links |-> ExpandLinks(data.links),
     TermsName |-> data.terms_name, TermsSource |-> data.terms_source,
     UserPoolId |-> data.user_pool_id]

\* fwflex.Expand into UpdateTermsInput: the members matched by name; no
\* field of the model is named TermsId, which stays nil.
ExpandUpdateTermsInput(data) ==
    [op |-> "UpdateTerms", Enforcement |-> data.enforcement,
     Links |-> ExpandLinks(data.links), TermsId |-> NilStr,
     TermsName |-> data.terms_name, TermsSource |-> data.terms_source,
     UserPoolId |-> data.user_pool_id]

\* fwflex.Flatten of a TermsType into the model: the fields matched by name.
Flatten(terms, data) ==
    [data EXCEPT
        !.client_id = StringToFramework(terms.ClientId),
        !.creation_date = RFC3339(terms.CreationDate),
        !.enforcement = terms.Enforcement,
        !.last_modified_date = RFC3339(terms.LastModifiedDate),
        !.links = terms.Links,
        !.terms_name = terms.TermsName,
        !.terms_source = terms.TermsSource,
        !.user_pool_id = StringToFramework(terms.UserPoolId)]

----------------------------------------------------------------------------
(* findManagedLoginTermsByTwoPartKey, lines 318-342. *)

DescribeTermsInput(userPoolID, termsID) ==
    [op |-> "DescribeTerms", TermsId |-> termsID, UserPoolId |-> userPoolID]

\* The function as it would be without lines 326-331: the service's error
\* is returned as it came.
findWithoutNotFound(output) ==
    IF output.err # "" THEN [terms |-> NoTerms, err |-> output.err]
    ELSE IF output.terms = NoTerms
      THEN [terms |-> NoTerms, err |-> "EmptyResultError"]
    ELSE [terms |-> output.terms, err |-> ""]

\* What the function returns for the output of its DescribeTerms call.
findManagedLoginTermsByTwoPartKey(output) ==
    IF output.err = "ResourceNotFoundException"
      THEN [terms |-> NoTerms, err |-> "NotFoundError"]
    ELSE IF output.err # "" THEN [terms |-> NoTerms, err |-> output.err]
    ELSE IF output.terms = NoTerms
      THEN [terms |-> NoTerms, err |-> "EmptyResultError"]
    ELSE [terms |-> output.terms, err |-> ""]

\* retry.NotFound: a NotFoundError, or an error that converts to one, which
\* tfresource's EmptyResultError does.
NotFound(err) == err \in {"NotFoundError", "EmptyResultError"}

----------------------------------------------------------------------------
(* What each handler answers: the diagnostics and the state it leaves.     *)

Answer(ds, st) == [diags |-> ds, state |-> st]

Present(data) == [present |-> TRUE, data |-> data]

\* Create as it would be without line 177: the ID is left as planned.
CreateResponseNoId(data, output) ==
    IF output.err # ""
      THEN Answer({Error("creating Cognito Managed Login Terms")}, NoState)
    ELSE IF output.terms = NoTerms
      THEN Answer({Error("creating Cognito Managed Login Terms: empty result")}, NoState)
    ELSE Answer({}, Present(Flatten(output.terms, data)))

\* Create, lines 160-179, given the plan and the output of CreateTerms.
CreateResponse(data, output) ==
    IF output.err # ""
      THEN Answer({Error("creating Cognito Managed Login Terms")}, NoState)
    ELSE IF output.terms = NoTerms
      THEN Answer({Error("creating Cognito Managed Login Terms: empty result")}, NoState)
    ELSE Answer({}, Present(
            [Flatten(output.terms, data) EXCEPT
                !.managed_login_terms_id = StringToFramework(output.terms.TermsId)]))

\* Read as it would be without line 207: the attributes are not refreshed.
ReadResponseNoFlatten(st, found) ==
    IF NotFound(found.err)
      THEN Answer({Warning("resource not found; removing from state")}, NoState)
    ELSE IF found.err # ""
      THEN Answer({Error("reading Cognito Managed Login Terms")}, st)
    ELSE Answer({}, Present(
            [st.data EXCEPT
                !.managed_login_terms_id = StringToFramework(found.terms.TermsId)]))

\* Read, lines 192-213, given the prior state and what the finder returned.
ReadResponse(st, found) ==
    IF NotFound(found.err)
      THEN Answer({Warning("resource not found; removing from state")}, NoState)
    ELSE IF found.err # ""
      THEN Answer({Error("reading Cognito Managed Login Terms")}, st)
    ELSE Answer({}, Present(
            [Flatten(found.terms, st.data) EXCEPT
                !.managed_login_terms_id = StringToFramework(found.terms.TermsId)]))

\* The check as it would be without lines 236-239.
MissingTermsIdUnchecked(st) == FALSE

\* Update, lines 235-240: whether the prior state names the object.
MissingTermsId(st) ==
    StrIsNull(st.data.managed_login_terms_id)
    \/ StrIsUnknown(st.data.managed_login_terms_id)

\* The request as it would be without line 240: what Expand made of the plan.
UpdateTermsInputFromPlan(plan, st) == ExpandUpdateTermsInput(plan)

\* Update, lines 229-240: the request, its TermsId set from the prior state.
UpdateTermsInput(plan, st) ==
    [ExpandUpdateTermsInput(plan) EXCEPT
        !.TermsId = ValueString(st.data.managed_login_terms_id)]

\* Update as it would be without the returns of lines 247 and 253: the plan
\* is written to the state after a failed call.
UpdateResponseKeepsGoing(plan, st, output) ==
    IF output.err # ""
      THEN Answer({Error("updating Cognito Managed Login Terms")}, Present(plan))
    ELSE IF output.terms = NoTerms
      THEN Answer({Error("updating Cognito Managed Login Terms: empty result")},
                  Present(plan))
    ELSE Answer({}, Present(
            [Flatten(output.terms, plan) EXCEPT
                !.managed_login_terms_id = StringToFramework(output.terms.TermsId)]))

\* Update, lines 242-262, given the plan, the prior state and the output.
UpdateResponse(plan, st, output) ==
    IF output.err # ""
      THEN Answer({Error("updating Cognito Managed Login Terms")}, st)
    ELSE IF output.terms = NoTerms
      THEN Answer({Error("updating Cognito Managed Login Terms: empty result")}, st)
    ELSE Answer({}, Present(
            [Flatten(output.terms, plan) EXCEPT
                !.managed_login_terms_id = StringToFramework(output.terms.TermsId)]))

\* The request as it would be with the two members of the key exchanged.
DeleteTermsInputSwapped(st) ==
    [op |-> "DeleteTerms",
     TermsId |-> StringValueFromFramework(st.data.user_pool_id),
     UserPoolId |-> StringValueFromFramework(st.data.managed_login_terms_id)]

\* Delete, lines 274-282: the request, keyed by the pair in the state.
DeleteTermsInput(st) ==
    [op |-> "DeleteTerms",
     TermsId |-> StringValueFromFramework(st.data.managed_login_terms_id),
     UserPoolId |-> StringValueFromFramework(st.data.user_pool_id)]

\* Delete as it would be without lines 285-287: not-found is an error.
DeleteResponseStrict(st, output) ==
    IF output.err # ""
      THEN Answer({Error("deleting Cognito Managed Login Terms")}, st)
      ELSE Answer({}, NoState)

\* Delete, lines 283-293; the framework drops the state of a Delete that
\* reported no error.
DeleteResponse(st, output) ==
    IF output.err = "ResourceNotFoundException" THEN Answer({}, NoState)
    ELSE IF output.err # ""
      THEN Answer({Error("deleting Cognito Managed Login Terms")}, st)
    ELSE Answer({}, NoState)

\* strings.Split(id, sep)
RECURSIVE Split(_, _)
Split(s, sep) ==
    IF \E i \in 1..Len(s) : s[i] = sep
      THEN LET i == CHOOSE j \in 1..Len(s) :
                      s[j] = sep /\ \A h \in 1..(j - 1) : s[h] # sep
           IN  <<SubSeq(s, 1, i - 1)>> \o Split(SubSeq(s, i + 1, Len(s)), sep)
      ELSE <<s>>

\* intflex.ExpandResourceId(id, partCount, allowEmptyPart)
ExpandResourceId(id, partCount, allowEmptyPart) ==
    LET idParts == Split(id, ",")
    IN  IF Len(idParts) <= 1 THEN [parts |-> <<>>, err |-> "unexpected format for ID"]
        ELSE IF Len(idParts) # partCount
          THEN [parts |-> <<>>, err |-> "unexpected format for ID"]
        ELSE IF ~allowEmptyPart /\ \E i \in 1..Len(idParts) : idParts[i] = <<>>
          THEN [parts |-> <<>>, err |-> "unexpected format for ID"]
        ELSE [parts |-> idParts, err |-> ""]

managedLoginTermsIDParts == 2

\* ImportState as it would be with the two parts exchanged.
ImportStateResponseSwapped(id) ==
    LET r == ExpandResourceId(id, managedLoginTermsIDParts, TRUE)
    IN  IF r.err # ""
          THEN Answer({Error("parsing resource ID")}, NoState)
          ELSE Answer({}, Present(
                  [NullModel EXCEPT !.user_pool_id = r.parts[2],
                                    !.managed_login_terms_id = r.parts[1]]))

\* ImportState, lines 296-310.
ImportStateResponse(id) ==
    LET r == ExpandResourceId(id, managedLoginTermsIDParts, TRUE)
    IN  IF r.err # ""
          THEN Answer({Error("parsing resource ID")}, NoState)
          ELSE Answer({}, Present(
                  [NullModel EXCEPT !.user_pool_id = r.parts[1],
                                    !.managed_login_terms_id = r.parts[2]]))

----------------------------------------------------------------------------
(* The operations. *)

\* The plan as it would be with no RequiresReplace on client_id.
PlannedActionNoReplace(cfg, st) ==
    IF ~st.present THEN "create"
    ELSE IF cfg.user_pool_id # st.data.user_pool_id THEN "replace"
    ELSE IF cfg.client_id # st.data.client_id
            \/ cfg.enforcement # st.data.enforcement
            \/ cfg.links # st.data.links
            \/ cfg.terms_name # st.data.terms_name
            \/ cfg.terms_source # st.data.terms_source THEN "update"
    ELSE "noop"

\* What Terraform plans for a configuration against the state: client_id
\* and user_pool_id have RequiresReplace (lines 61-63 and 138-140).
PlannedAction(cfg, st) ==
    IF ~st.present THEN "create"
    ELSE IF cfg.client_id # st.data.client_id
            \/ cfg.user_pool_id # st.data.user_pool_id THEN "replace"
    ELSE IF cfg.enforcement # st.data.enforcement
            \/ cfg.links # st.data.links
            \/ cfg.terms_name # st.data.terms_name
            \/ cfg.terms_source # st.data.terms_source THEN "update"
    ELSE "noop"

\* A configuration Terraform applies: wholly known, and valid.
Applicable(cfg) == WhollyKnown(cfg) /\ ~HasError(ValidateConfigDiags(cfg))

Join(a, b) == a \o <<",">> \o b

ImportIDs ==
    {Join(p, TermsIdOf(n)) : p \in {Pool1, Pool2}, n \in 1..MaxTerms}
    \cup {<<>>, Pool1, Join(<<>>, TermsIdOf(1)), Join(Pool1, <<>>),
          Join(Join(Pool1, TermsIdOf(1)), <<"x">>)}

\* The pair that identifies the resource a state records.
ResourceKey(st) ==
    <<StringValueFromFramework(st.data.user_pool_id),
      StringValueFromFramework(st.data.managed_login_terms_id)>>

\* created, less the objects that are gone and the one just changed.
Unchanged(stored, changed) ==
    [i \in (DOMAIN created \cap DOMAIN stored) \ {changed} |-> created[i]]

Init ==
    /\ expandNull \in ExpandNullOutcomes
    /\ remote = <<>>
    /\ nextId = 0
    /\ clock = 0
    /\ config = BaseConfig
    /\ state = NoState
    /\ phase = "idle"
    /\ diags = {}
    /\ lastOp = "Init"
    /\ lastPhase = "idle"
    /\ lastReq = NoReq
    /\ lastResp = NoResp
    /\ created = <<>>
    /\ destroyed = {}

\* The configuration is written and validated.
ValidateConfig(cfg) ==
    /\ phase = "idle"
    /\ config' = cfg
    /\ diags' = ValidateConfigDiags(cfg)
    /\ lastOp' = "ValidateConfig"
    /\ lastPhase' = phase
    /\ lastReq' = NoReq
    /\ lastResp' = NoResp
    /\ UNCHANGED <<expandNull, remote, nextId, clock, state, phase, created, destroyed>>

Create(fault) ==
    /\ phase = "idle"
    /\ Applicable(config)
    /\ PlannedAction(config, state) = "create"
    /\ nextId < MaxTerms
    /\ clock < MaxClock
    /\ LET data == CreatePlan(config)
           input == ExpandCreateTermsInput(data)
           output == CreateTerms(input, fault)
           answer == CreateResponse(data, output)
       IN  IF HasError(ExpandDiags(data))
               THEN /\ diags' = ExpandDiags(data)
                    /\ lastReq' = NoReq
                    /\ lastResp' = NoResp
                    /\ UNCHANGED <<remote, nextId, clock, state, created>>
               ELSE /\ remote' = Stored(output)
                    /\ nextId' = IF output.terms = NoTerms THEN nextId ELSE nextId + 1
                    /\ clock' = IF output.terms = NoTerms THEN clock ELSE clock + 1
                    /\ state' = answer.state
                    /\ diags' = answer.diags
                    /\ lastReq' = input
                    /\ lastResp' = output
                    /\ created' =
                         IF answer.state.present
                           THEN [i \in DOMAIN created \cup {output.terms.TermsId} |->
                                   IF i = output.terms.TermsId
                                     THEN answer.state.data ELSE created[i]]
                           ELSE created
    /\ lastOp' = "Create"
    /\ lastPhase' = phase
    /\ UNCHANGED <<expandNull, config, phase, destroyed>>

Read(fault) ==
    /\ state.present
    /\ LET userPoolID == StringValueFromFramework(state.data.user_pool_id)
           termsID == StringValueFromFramework(state.data.managed_login_terms_id)
           input == DescribeTermsInput(userPoolID, termsID)
           output == DescribeTerms(input, fault)
           answer == ReadResponse(state, findManagedLoginTermsByTwoPartKey(output))
       IN  /\ state' = answer.state
           /\ diags' = answer.diags
           /\ lastReq' = input
           /\ lastResp' = output
           /\ phase' = IF HasError(answer.diags) THEN phase ELSE "idle"
    /\ lastOp' = "Read"
    /\ lastPhase' = phase
    /\ UNCHANGED <<expandNull, remote, nextId, clock, config, created, destroyed>>

Update(fault) ==
    /\ phase = "idle"
    /\ Applicable(config)
    /\ PlannedAction(config, state) = "update"
    /\ clock < MaxClock
    /\ LET plan == UpdatePlan(config, state.data)
       IN  IF HasError(ExpandDiags(plan))
               THEN /\ diags' = ExpandDiags(plan)
                    /\ lastReq' = NoReq
                    /\ lastResp' = NoResp
                    /\ UNCHANGED <<remote, clock, state, created>>
             ELSE IF MissingTermsId(state)
               THEN /\ diags' = {Error("updating Cognito Managed Login Terms: missing managed_login_terms_id in state")}
                    /\ lastReq' = NoReq
                    /\ lastResp' = NoResp
                    /\ UNCHANGED <<remote, clock, state, created>>
             ELSE LET input == UpdateTermsInput(plan, state)
                      output == UpdateTerms(input, fault)
                      answer == UpdateResponse(plan, state, output)
                  IN  /\ remote' = Stored(output)
                      /\ clock' = IF output.terms = NoTerms THEN clock ELSE clock + 1
                      /\ state' = answer.state
                      /\ diags' = answer.diags
                      /\ lastReq' = input
                      /\ lastResp' = output
                      /\ created' = Unchanged(Stored(output), input.TermsId)
    /\ lastOp' = "Update"
    /\ lastPhase' = phase
    /\ UNCHANGED <<expandNull, nextId, config, phase, destroyed>>

Delete(fault) ==
    /\ phase = "idle"
    /\ state.present
    /\ fault # "empty"
    /\ LET input == DeleteTermsInput(state)
           output == DeleteTerms(input, fault)
           answer == DeleteResponse(state, output)
       IN  /\ remote' = Removed(input, output)
           /\ state' = answer.state
           /\ diags' = answer.diags
           /\ lastReq' = input
           /\ lastResp' = output
           /\ destroyed' = IF HasError(answer.diags) THEN destroyed
                           ELSE destroyed \cup {ResourceKey(state)}
           /\ created' = Unchanged(Removed(input, output), <<>>)
    /\ lastOp' = "Delete"
    /\ lastPhase' = phase
    /\ UNCHANGED <<expandNull, nextId, clock, config, phase>>

ImportState(id) ==
    /\ phase = "idle"
    /\ ~state.present
    /\ LET answer == ImportStateResponse(id)
       IN  /\ state' = answer.state
           /\ diags' = answer.diags
           /\ phase' = IF HasError(answer.diags) THEN "idle" ELSE "imported"
    /\ lastOp' = "ImportState"
    /\ lastPhase' = phase
    /\ lastReq' = [op |-> "import", ID |-> id]
    /\ lastResp' = NoResp
    /\ UNCHANGED <<expandNull, remote, nextId, clock, config, created, destroyed>>

\* The object is deleted outside Terraform.
ExternalDelete(termsId) ==
    /\ termsId \in DOMAIN remote
    /\ remote' = [i \in DOMAIN remote \ {termsId} |-> remote[i]]
    /\ created' = Unchanged(remote', <<>>)
    /\ diags' = {}
    /\ lastOp' = "ExternalDelete"
    /\ lastPhase' = phase
    /\ lastReq' = NoReq
    /\ lastResp' = NoResp
    /\ UNCHANGED <<expandNull, nextId, clock, config, state, phase, destroyed>>

\* The resource is dropped from the Terraform state and the object kept, as
\* before an import into a fresh state.
StateRm ==
    /\ phase = "idle"
    /\ state.present
    /\ state' = NoState
    /\ diags' = {}
    /\ lastOp' = "StateRm"
    /\ lastPhase' = phase
    /\ lastReq' = NoReq
    /\ lastResp' = NoResp
    /\ UNCHANGED <<expandNull, remote, nextId, clock, config, phase, created, destroyed>>

Next ==
    \/ \E cfg \in Configs : ValidateConfig(cfg)
    \/ \E fault \in Faults : Create(fault)
    \/ \E fault \in Faults : Read(fault)
    \/ \E fault \in Faults : Update(fault)
    \/ \E fault \in Faults : Delete(fault)
    \/ \E id \in ImportIDs : ImportState(id)
    \/ \E termsId \in DOMAIN remote : ExternalDelete(termsId)
    \/ StateRm

Spec == Init /\ [][Next]_vars

\* The states a Create leaves when the terms object CreateTerms returned had
\* no TermsId: line 177 then writes a null managed_login_terms_id.
InitMissingId ==
    \E cfg \in Configs :
        /\ expandNull \in ExpandNullOutcomes
        /\ Applicable(cfg)
        /\ ~HasError(ExpandDiags(CreatePlan(cfg)))
        /\ cfg.user_pool_id \in UserPools
        /\ LET data == CreatePlan(cfg)
               input == ExpandCreateTermsInput(data)
               terms == [ClientId |-> input.ClientId, CreationDate |-> 500,
                         Enforcement |-> input.Enforcement,
                         LastModifiedDate |-> 500, Links |-> input.Links,
                         TermsId |-> TermsIdOf(1), TermsName |-> input.TermsName,
                         TermsSource |-> input.TermsSource,
                         UserPoolId |-> input.UserPoolId]
               output == Resp("", [terms EXCEPT !.TermsId = NilStr])
               answer == CreateResponse(data, output)
           IN  /\ config = cfg
               /\ remote = (TermsIdOf(1) :> terms)
               /\ nextId = 1
               /\ clock = 1
               /\ state = answer.state
               /\ diags = answer.diags
               /\ lastReq = input
               /\ lastResp = output
        /\ phase = "idle"
        /\ lastOp = "Create"
        /\ lastPhase = "idle"
        /\ created = <<>>
        /\ destroyed = {}

SpecMissingId == InitMissingId /\ [][Next]_vars

\* The validators alone, on every configuration of ValidatorConfigs.
InitValidate ==
    /\ expandNull \in ExpandNullOutcomes
    /\ config \in ValidatorConfigs
    /\ remote = <<>> /\ nextId = 0 /\ clock = 0
    /\ state = NoState /\ phase = "idle" /\ diags = {}
    /\ lastOp = "Init" /\ lastPhase = "idle"
    /\ lastReq = NoReq /\ lastResp = NoResp
    /\ created = <<>> /\ destroyed = {}

NextValidate == \E cfg \in ValidatorConfigs : ValidateConfig(cfg)

SpecValidate == InitValidate /\ [][NextValidate]_vars

----------------------------------------------------------------------------
(* Properties. *)

\* C1: whenever the resource is recorded in Terraform state (an imported
\* state counts once its Read has run), the links map in the state has the
\* key "cognito:default".
C1_LinksHaveDefault ==
    (state.present /\ phase = "idle") =>
        /\ ~MapIsNull(state.data.links)
        /\ ~MapIsUnknown(state.data.links)
        /\ "cognito:default" \in DOMAIN state.data.links

C1_Witness ==
    /\ lastOp = "Read" /\ lastPhase = "imported" /\ diags = {}
    /\ state.present /\ phase = "idle"
    /\ DOMAIN state.data.links = {"cognito:default", "cognito:english"}

\* C2: for a configuration whose links map is known and not null the
\* config validator reports its invalid-attribute-value error on links
\* exactly when the map has no "cognito:default" key, and for a null or
\* unknown links it reports nothing.
C2_ValidatorIffNoDefault ==
    lastOp = "ValidateConfig" =>
        IF MapIsNull(config.links) \/ MapIsUnknown(config.links)
          THEN MissingDefault \notin diags
          ELSE (MissingDefault \in diags) <=>
                   ("cognito:default" \notin DOMAIN config.links)

C2_Witness ==
    /\ lastOp = "ValidateConfig"
    /\ config.links = ("cognito:default" :> UnknownStr)
    /\ MissingDefault \notin diags

\* C3: after a Create that reported no error the state holds a non-null
\* managed_login_terms_id equal to the TermsId CreateTerms returned for the
\* new object, and every other attribute equals the field of the returned
\* terms object (a date as its RFC 3339 value).
C3_CreateState ==
    (lastOp = "Create" /\ ~HasError(diags)) =>
        LET terms == lastResp.terms
            data == state.data
        IN  /\ state.present
            /\ terms # NoTerms
            /\ data.managed_login_terms_id # NullStr
            /\ data.managed_login_terms_id # UnknownStr
            /\ data.managed_login_terms_id = terms.TermsId
            /\ terms.TermsId \in DOMAIN remote
            /\ remote[terms.TermsId] = terms
            /\ data.client_id = terms.ClientId
            /\ data.user_pool_id = terms.UserPoolId
            /\ data.enforcement = terms.Enforcement
            /\ data.terms_name = terms.TermsName
            /\ data.terms_source = terms.TermsSource
            /\ data.links = terms.Links
            /\ data.creation_date = <<terms.CreationDate \div 1000>>
            /\ data.last_modified_date = <<terms.LastModifiedDate \div 1000>>

C3_Witness ==
    /\ lastOp = "Create" /\ diags = {} /\ state.present
    /\ state.data.managed_login_terms_id = TermsIdOf(2)
    /\ state.data.terms_name = "privacy-policy"

C5_DeleteKeyedAndTolerant ==
    [][lastOp' = "Delete" =>
          /\ lastReq'.op = "DeleteTerms"
          /\ lastReq'.UserPoolId = state.data.user_pool_id
          /\ lastReq'.TermsId = state.data.managed_login_terms_id
          /\ (lastResp'.err = "ResourceNotFoundException" => ~HasError(diags'))
          /\ (lastResp'.err \notin {"", "ResourceNotFoundException"}
                => HasError(diags'))]_vars

C5_Witness ==
    /\ lastOp = "Delete"
    /\ lastResp.err = "ResourceNotFoundException"
    /\ lastReq.UserPoolId = Pool1 /\ lastReq.TermsId = TermsIdOf(1)
    /\ diags = {}
    /\ ~state.present

\* C6: a Read that finds the object gone (ResourceNotFoundException)
\* removes the resource from the state and reports a warning and no error,
\* so that a create is planned next; a Read whose DescribeTerms fails in any
\* other way reports an error and leaves the state as it was.
C6_ReadOfMissingObject ==
    [][lastOp' = "Read" =>
          /\ (lastResp'.err = "ResourceNotFoundException" =>
                /\ ~state'.present
                /\ ~HasError(diags')
                /\ \E d \in diags' : d.severity = "warning"
                /\ PlannedAction(config', state') = "create")
          /\ (lastResp'.err \notin {"", "ResourceNotFoundException"} =>
                /\ HasError(diags')
                /\ state' = state)]_vars

C6_Witness ==
    /\ lastOp = "Read" /\ lastPhase = "idle"
    /\ lastResp.err = "ResourceNotFoundException"
    /\ lastReq.UserPoolId = Pool1 /\ lastReq.TermsId = TermsIdOf(1)
    /\ destroyed = {}
    /\ ~state.present
    /\ \E d \in diags : d.severity = "warning"

\* C7: once the resource has been destroyed, looking up its
\* (user_pool_id, managed_login_terms_id) pair returns a not-found error,
\* then and ever after.
C7_DestroyedStaysGone ==
    \A key \in destroyed :
        LET input == DescribeTermsInput(key[1], key[2])
            found == findManagedLoginTermsByTwoPartKey(DescribeTerms(input, "none"))
        IN  found.err = "NotFoundError" /\ NotFound(found.err)

C7_Witness ==
    /\ lastOp = "Delete" /\ lastResp.err = "" /\ diags = {}
    /\ <<Pool1, TermsIdOf(1)>> \in destroyed
    /\ clock = 2
    /\ ~state.present

\* C8: importing an object that Create made, by the ID
\* "<user_pool_id>,<managed_login_terms_id>", and reading it gives a state
\* equal in every attribute to the state Create wrote.
C8_ImportRoundTrip ==
    (/\ lastOp = "Read" /\ lastPhase = "imported"
     /\ lastReq.TermsId \in DOMAIN created
     /\ lastReq.UserPoolId = created[lastReq.TermsId].user_pool_id
     /\ lastResp.err = "" /\ lastResp.terms # NoTerms) =>
        /\ state.present
        /\ diags = {}
        /\ state.data = created[lastReq.TermsId]

C8_Witness ==
    /\ lastOp = "Read" /\ lastPhase = "imported" /\ diags = {}
    /\ lastResp.err = "" /\ lastResp.terms # NoTerms
    /\ state.present
    /\ state.data.managed_login_terms_id \in DOMAIN created
    /\ state.data = created[state.data.managed_login_terms_id]
    /\ state.data.client_id = Client1

\* The places of the separator in an import ID.
C9_Commas(id) == {i \in 1..Len(id) : id[i] = ","}

\* C9: ImportState reads the import ID as user_pool_id and
\* managed_login_terms_id separated by ",": an ID of exactly two parts sets
\* user_pool_id to the first and managed_login_terms_id to the second, and
\* any other ID is reported as a parsing error and sets no attribute.
C9_ImportIdParsing ==
    lastOp = "ImportState" =>
        LET id == lastReq.ID
        IN  IF Cardinality(C9_Commas(id)) = 1
              THEN LET i == CHOOSE j \in C9_Commas(id) : TRUE
                   IN  /\ ~HasError(diags)
                       /\ state.present
                       /\ state.data.user_pool_id = SubSeq(id, 1, i - 1)
                       /\ state.data.managed_login_terms_id =
                              SubSeq(id, i + 1, Len(id))
              ELSE /\ HasError(diags)
                   /\ state = NoState

C9_Witness ==
    /\ lastOp = "ImportState" /\ diags = {}
    /\ state.present
    /\ state.data.user_pool_id = Pool2
    /\ state.data.managed_login_terms_id = TermsIdOf(2)
    /\ state.data.client_id = NullStr

\* C10, as stated: the schema validators of links accept a known map only if
\* it has 1 to 12 entries, each key is one of the twelve cognito:<language>
\* keys and every value is 1 to 1024 characters long. A value that is not
\* known yet has no length to judge; a null value has none at all.
C10_AcceptedLinksEveryValue ==
    (/\ lastOp = "ValidateConfig"
     /\ ~MapIsNull(config.links) /\ ~MapIsUnknown(config.links)
     /\ \A d \in diags : d.attr = "links" => d = MissingDefault) =>
        /\ Cardinality(DOMAIN config.links) \in 1..12
        /\ DOMAIN config.links \subseteq
              {"cognito:default", "cognito:english", "cognito:french",
               "cognito:spanish", "cognito:german", "cognito:bahasa-indonesia",
               "cognito:italian", "cognito:japanese", "cognito:korean",
               "cognito:portuguese-brazil", "cognito:chinese-simplified",
               "cognito:chinese-traditional"}
        /\ \A k \in DOMAIN config.links :
              ~StrIsUnknown(config.links[k]) =>
                  /\ ~StrIsNull(config.links[k])
                  /\ Len(config.links[k]) \in 1..1024

\* C10, amended: the schema validators of links accept a known map only if
\* it has 1 to 12 entries, each key is one of the twelve cognito:<language>
\* keys and every value that is known and not null is 1 to 1024 characters
\* long; a null value is passed over by the value validators.
C10_AcceptedLinks ==
    (/\ lastOp = "ValidateConfig"
     /\ ~MapIsNull(config.links) /\ ~MapIsUnknown(config.links)
     /\ \A d \in diags : d.attr = "links" => d = MissingDefault) =>
        /\ Cardinality(DOMAIN config.links) \in 1..12
        /\ DOMAIN config.links \subseteq
              {"cognito:default", "cognito:english", "cognito:french",
               "cognito:spanish", "cognito:german", "cognito:bahasa-indonesia",
               "cognito:italian", "cognito:japanese", "cognito:korean",
               "cognito:portuguese-brazil", "cognito:chinese-simplified",
               "cognito:chinese-traditional"}
        /\ \A k \in DOMAIN config.links :
              (~StrIsNull(config.links[k]) /\ ~StrIsUnknown(config.links[k])) =>
                  Len(config.links[k]) \in 1..1024

C10_Witness ==
    /\ lastOp = "ValidateConfig"
    /\ Cardinality(DOMAIN config.links) = 12
    /\ StrIsNull(config.links["cognito:english"])
    /\ Len(config.links["cognito:default"]) \in 1..1024
    /\ \A d \in diags : d.attr # "links"

\* C11: validation accepts a user_pool_id only if it is 1 to 55 characters
\* long and is made of word characters or hyphens, an underscore and then
\* alphanumerics, with no other character anywhere in the value.
C11_AcceptedUserPoolID ==
    (/\ lastOp = "ValidateConfig"
     /\ ~StrIsNull(config.user_pool_id) /\ ~StrIsUnknown(config.user_pool_id)
     /\ \A d \in diags : d.attr # "user_pool_id") =>
        LET v == config.user_pool_id
        IN  /\ Len(v) \in 1..55
            /\ \A i \in 1..Len(v) : v[i] \in WordChars \cup {"-"}
            /\ \E b \in 1..(Len(v) - 2) :
                  /\ \A i \in 1..b : v[i] \in WordChars \cup {"-"}
                  /\ v[b + 1] = "_"
                  /\ \A i \in (b + 2)..Len(v) : v[i] \in AlnumChars

\* C12: no Update changes client_id or user_pool_id.  Against a recorded
\* state, a configuration that differs in client_id or user_pool_id is
\* planned as a replacement and one that differs only in terms_name, links,
\* enforcement or terms_source as an update, so that every Update runs with
\* a client_id and a user_pool_id equal in the plan and in the prior state,
\* and leaves them as they were in the state and in the object.
C12_UpdateKeepsClientAndPool ==
    [][/\ (state.present /\ phase = "idle") =>
            /\ (config.client_id # state.data.client_id
                \/ config.user_pool_id # state.data.user_pool_id)
                  => PlannedAction(config, state) = "replace"
            /\ (/\ config.client_id = state.data.client_id
                /\ config.user_pool_id = state.data.user_pool_id
                /\ (config.terms_name # state.data.terms_name
                    \/ config.links # state.data.links
                    \/ config.enforcement # state.data.enforcement
                    \/ config.terms_source # state.data.terms_source))
                  => PlannedAction(config, state) = "update"
       /\ lastOp' = "Update" =>
            /\ UpdatePlan(config, state.data).client_id = state.data.client_id
            /\ UpdatePlan(config, state.data).user_pool_id = state.data.user_pool_id
            /\ state'.present
            /\ state'.data.client_id = state.data.client_id
            /\ state'.data.user_pool_id = state.data.user_pool_id
            /\ \A i \in DOMAIN remote :
                  /\ i \in DOMAIN remote'
                  /\ remote'[i].ClientId = remote[i].ClientId
                  /\ remote'[i].UserPoolId = remote[i].UserPoolId]_vars

C12_Witness ==
    /\ lastOp = "Update" /\ diags = {} /\ state.present
    /\ state.data.client_id = config.client_id
    /\ state.data.user_pool_id = config.user_pool_id
    /\ state.data.links = LinksTwo
    /\ state.data.terms_name = "privacy-policy"
    /\ remote[state.data.managed_login_terms_id].ClientId = config.client_id
    /\ remote[state.data.managed_login_terms_id].UserPoolId = config.user_pool_id

\* C13, as stated: an Update whose prior state has a null or unknown
\* managed_login_terms_id reports "missing managed_login_terms_id in state",
\* sends no UpdateTerms request, and leaves the control plane and the
\* Terraform state as they were.
C13_UpdateWithoutIdAnyPlan ==
    [][(/\ lastOp' = "Update"
        /\ state.data.managed_login_terms_id \in {NullStr, UnknownStr}) =>
          /\ diags' = {Error("updating Cognito Managed Login Terms: missing managed_login_terms_id in state")}
          /\ lastReq' = NoReq
          /\ lastResp' = NoResp
          /\ remote' = remote
          /\ state' = state]_vars

\* C13, amended: an Update whose prior state has a null or unknown
\* managed_login_terms_id reports an error, sends no UpdateTerms request, and
\* leaves the control plane and the Terraform state as they were; the error
\* is "missing managed_login_terms_id in state" whenever no value of the
\* planned links is null, so that the plan converts into a request.
C13_UpdateWithoutId ==
    [][(/\ lastOp' = "Update"
        /\ state.data.managed_login_terms_id \in {NullStr, UnknownStr}) =>
          /\ HasError(diags')
          /\ (\A k \in DOMAIN config.links : ~StrIsNull(config.links[k])) =>
                diags' = {Error("updating Cognito Managed Login Terms: missing managed_login_terms_id in state")}
          /\ lastReq' = NoReq
          /\ lastResp' = NoResp
          /\ remote' = remote
          /\ state' = state]_vars

C13_Witness ==
    /\ lastOp = "Update"
    /\ state.present
    /\ state.data.managed_login_terms_id = NullStr
    /\ lastReq = NoReq
    /\ diags = {Error("updating Cognito Managed Login Terms: missing managed_login_terms_id in state")}
    /\ TermsIdOf(1) \in DOMAIN remote
    /\ remote[TermsIdOf(1)].TermsName # config.terms_name

\* C14: when CreateTerms or UpdateTerms answers with an error, or with no
\* terms object, the operation reports an error and writes no state: after a
\* failed Create no resource is recorded, and after a failed Update the state
\* is the prior state.
C14_FailedCallWritesNoState ==
    [][(/\ lastOp' \in {"Create", "Update"}
        /\ lastReq'.op \in {"CreateTerms", "UpdateTerms"}
        /\ (lastResp'.err # "" \/ lastResp'.terms = NoTerms)) =>
          /\ HasError(diags')
          /\ state' = state
          /\ lastOp' = "Create" => ~state'.present
          /\ lastOp' = "Update" => state'.present]_vars

C14_Witness ==
    /\ lastOp = "Update"
    /\ lastReq.op = "UpdateTerms"
    /\ lastResp.err = ""
    /\ lastResp.terms = NoTerms
    /\ HasError(diags)
    /\ state.present
    /\ state.data.terms_name # config.terms_name

====
